---- MODULE Spec2Model ----
(***************************************************************************)
(* A model of Plex-FUSE: the catalog scanner (producer / consumers over a  *)
(* bounded queue), the served index (path_cache, dir_map) and its publish, *)
(* the refresh loop, the constructor's bootstrap, and the two persistent   *)
(* cache managers (SQLite, Redis).                                         *)
(*                                                                         *)
(* A path is a sequence of tokens: the token "/" is the separator, every   *)
(* other token is a piece of text that holds no "/".                       *)
(***************************************************************************)
EXTENDS Integers, Sequences, FiniteSets, TLC

\* ------------------------------------------------------------------ bounds

\* How many scans the refresh loop may start in one behaviour.
MaxScans == 2
\* How far the clock (in hours) may advance.
MaxTime == 2

\* ------------------------------------------------------------- os.path

None == "None"

SLASH == "/"

Min(a, b) == IF a < b THEN a ELSE b

\* The index of the last "/" of p, 0 when it holds none (str.rfind + 1).
RECURSIVE RFindSep(_, _)
RFindSep(p, i) ==
    IF i = 0 THEN 0
    ELSE IF p[i] = SLASH THEN i
    ELSE RFindSep(p, i - 1)

AllSlashes(p) == \A i \in 1..Len(p) : p[i] = SLASH

\* str.rstrip('/')
RECURSIVE RStripSep(_)
RStripSep(p) ==
    IF p # <<>> /\ p[Len(p)] = SLASH THEN RStripSep(SubSeq(p, 1, Len(p) - 1))
    ELSE p

\* posixpath.dirname
dirname(p) ==
    LET i == RFindSep(p, Len(p))
        head == SubSeq(p, 1, i)
    IN  IF head # <<>> /\ ~AllSlashes(head) THEN RStripSep(head) ELSE head

\* posixpath.basename
basename(p) == SubSeq(p, RFindSep(p, Len(p)) + 1, Len(p))

\* posixpath.join(a, b)
join(a, b) ==
    IF b # <<>> /\ b[1] = SLASH THEN b
    ELSE IF a = <<>> \/ a[Len(a)] = SLASH THEN a \o b
    ELSE a \o <<SLASH>> \o b

Root == <<SLASH>>

\* The format spec ":02d" on the season and episode numbers of the catalogs.
Fmt02(n) ==
    CASE n = 0 -> "00"
      [] n = 1 -> "01"
      [] n = 2 -> "02"
      [] OTHER -> "NN"

\* ------------------------------------------------------------- dict helpers

\* d[k] = v on a Python dict held as a function.
DictSet(d, k, v) == [x \in (DOMAIN d) \cup {k} |-> IF x = k THEN v ELSE d[x]]

\* dict.update
DictUpdate(d, e) == [x \in (DOMAIN d) \cup (DOMAIN e) |-> IF x \in DOMAIN e THEN e[x] ELSE d[x]]

EmptyDict == [x \in {} |-> None]

\* d.get(k): None when absent.
DictGet(d, k) == IF k \in DOMAIN d THEN d[k] ELSE None

SeqToSet(s) == {s[i] : i \in 1..Len(s)}

\* ------------------------------------------------------------- expansion

DirDetails == [type |-> "dir", size |-> 0, key |-> None]

FileDetails(size, key) == [type |-> "file", size |-> size, key |-> key]

\* add_to_maps: one staged entry of an item, in the item's own two maps.
add_to_maps(maps, path, details) ==
    LET parent == dirname(path)
        base == basename(path)
        dm == IF parent \in DOMAIN maps.dmap THEN maps.dmap
              ELSE DictSet(maps.dmap, parent, <<>>)
    IN  [cache |-> DictSet(maps.cache, path, details),
         dmap |-> [dm EXCEPT ![parent] = Append(@, base)]]

EmptyMaps == [cache |-> EmptyDict, dmap |-> EmptyDict]

\* The file entries of one season's episodes; an episode without media is skipped.
RECURSIVE AddEpisodes(_, _, _)
AddEpisodes(maps, season_path, eps) ==
    IF eps = <<>> THEN maps
    ELSE LET ep == Head(eps)
             filename == <<"S", Fmt02(ep.seasonNumber), "E", Fmt02(ep.index), " - ">>
                         \o ep.title \o ep.ext
             next == IF ep.media
                     THEN add_to_maps(maps, join(season_path, filename),
                                      FileDetails(ep.size, ep.key))
                     ELSE maps
         IN  AddEpisodes(next, season_path, Tail(eps))

\* The season directories of a show, each followed by its episodes.
RECURSIVE AddSeasons(_, _, _)
AddSeasons(maps, show_path, seasons) ==
    IF seasons = <<>> THEN maps
    ELSE LET s == Head(seasons)
             season_path == join(show_path, <<"Season ", Fmt02(s.seasonNumber)>>)
             withDir == add_to_maps(maps, season_path, DirDetails)
         IN  AddSeasons(AddEpisodes(withDir, season_path, s.episodes), show_path, Tail(seasons))

\* What _consumer_worker stages for one item before it takes the merge lock.
\* item.raises: the expansion raises part-way (no media, a failed seasons() call),
\* and the except clause drops what was staged.
ExpandItem(item) ==
    LET library_root_path == join(Root, item.section)
    IN  IF item.raises THEN [ok |-> FALSE, maps |-> EmptyMaps]
        ELSE IF item.type = "movie"
        THEN [ok |-> TRUE,
              maps |-> add_to_maps(EmptyMaps,
                           join(library_root_path, item.title \o <<" (", item.year, ")">> \o item.ext),
                           FileDetails(item.size, item.key))]
        ELSE IF item.type = "show"
        THEN LET show_path == join(library_root_path, item.title)
             IN  [ok |-> TRUE,
                  maps |-> AddSeasons(add_to_maps(EmptyMaps, show_path, DirDetails),
                                      show_path, item.seasons)]
        ELSE [ok |-> TRUE, maps |-> EmptyMaps]

\* list.extend of every staged child list into the shared dir map.
MergeDirMap(final, staged) ==
    [p \in (DOMAIN final) \cup (DOMAIN staged) |->
        IF p \in DOMAIN staged
        THEN (IF p \in DOMAIN final THEN final[p] ELSE <<>>) \o staged[p]
        ELSE final[p]]

\* ------------------------------------------------------------- the remote catalog

Movie(sec, title, bad) ==
    [type |-> "movie", section |-> sec, title |-> title, year |-> "0", ext |-> <<".mkv">>,
     size |-> 1, key |-> "part", seasons |-> <<>>, raises |-> bad]

Episode(media) ==
    [media |-> media, seasonNumber |-> 1, index |-> 1, title |-> <<"e">>, ext |-> <<".mkv">>,
     size |-> 1, key |-> "part"]

Show(sec, title, bad) ==
    [type |-> "show", section |-> sec, title |-> title, year |-> "0", ext |-> <<>>,
     size |-> 0, key |-> None,
     seasons |-> << [seasonNumber |-> 1, episodes |-> <<Episode(TRUE), Episode(FALSE)>>] >>,
     raises |-> bad]

LibM == [key |-> 1, title |-> <<"M">>, type |-> "movie"]
LibT == [key |-> 2, title |-> <<"T">>, type |-> "show"]
LibMusic == [key |-> 3, title |-> <<"A">>, type |-> "artist"]

MovA == Movie(<<"M">>, <<"a">>, FALSE)
MovB == Movie(<<"M">>, <<"b">>, FALSE)
\* A title that holds the path separator, such as "Face/Off".
MovSlash == Movie(<<"M">>, <<"a", SLASH, "b">>, FALSE)
\* A movie without media: item.media[0] raises.
MovBad == Movie(<<"M">>, <<"c">>, TRUE)
ShowS == Show(<<"T">>, <<"s">>, FALSE)
ShowBad == Show(<<"T">>, <<"t">>, TRUE)

\* The None that ends a consumer (line 218), and a worker's empty hand.
Sentinel == [Movie(<<>>, <<>>, FALSE) EXCEPT !.type = "None"]

Catalog(libs, m, t) == [libs |-> libs, items |-> (1 :> m) @@ (2 :> t) @@ (3 :> <<>>)]

\* The most items the remote returns in one page, whatever size was asked for.
MaxPage == 1

\* The sizes of the chunk ladder (line 136), and 0 for the sectionByID call.
ChunkLadder == <<500, 200, 100, 50>>
SectionCall == 0

\* The page of a library at an offset: an empty page when the offset is past the end.
FetchPage(items, start, size) ==
    SubSeq(items, start + 1, Min(Len(items), start + Min(size, MaxPage)))

\* ------------------------------------------------------------- persistence

\* json.dumps of a dict: a JSON object is its set of members.
Members(d) == {<<k, d[k]>> : k \in DOMAIN d}

FromMembers(m) == [k \in {p[1] : p \in m} |-> (CHOOSE p \in m : p[1] = k)[2]]

json_dumps(data) ==
    [path_cache |-> Members(data.path_cache), dir_map |-> Members(data.dir_map)]

json_loads(text) ==
    [path_cache |-> FromMembers(text.path_cache), dir_map |-> FromMembers(text.dir_map)]

EmptyIndex == [path_cache |-> EmptyDict, dir_map |-> EmptyDict]

\* BaseCacheManager.__init__
ttl_seconds(ttl_hours) == ttl_hours * 3600

Hour == 3600

\* SQLiteCacheManager.save: INSERT OR REPLACE of the row of server_id.
SQLiteSave(rows, data, server_id, now) ==
    DictSet(rows, server_id, [cache_data |-> json_dumps(data), timestamp |-> now])

\* ORDER BY timestamp ASC: the row written first.
SQLiteOldestRow(rows) ==
    CHOOSE id \in DOMAIN rows : \A o \in DOMAIN rows : rows[id].timestamp <= rows[o].timestamp

\* The first row of SELECT ... ORDER BY timestamp DESC: the row written last, whatever
\* its server_id.
SQLiteFirstRow(rows) ==
    CHOOSE id \in DOMAIN rows : \A o \in DOMAIN rows : rows[o].timestamp <= rows[id].timestamp

\* SQLiteCacheManager.load: what it returns (found: not None) and the table it leaves.
SQLiteLoad(rows, server_id, load_stale, now, ttl) ==
    IF DOMAIN rows = {} THEN [found |-> FALSE, data |-> EmptyIndex, rows |-> rows]
    ELSE LET found_id == SQLiteFirstRow(rows)
             is_stale == (now - rows[found_id].timestamp) >= ttl
         IN  IF ~is_stale
             THEN [found |-> TRUE, data |-> json_loads(rows[found_id].cache_data), rows |-> rows]
             ELSE IF load_stale
             THEN [found |-> TRUE, data |-> json_loads(rows[found_id].cache_data), rows |-> rows]
             ELSE [found |-> FALSE, data |-> EmptyIndex,
                   rows |-> [id \in (DOMAIN rows) \ {found_id} |-> rows[id]]]

\* RedisCacheManager._get_key
RedisKey(instance_name, server_id) == <<"plexfuse", instance_name, "cache", server_id>>

\* RedisCacheManager.save: SETEX refuses an expiry that is not positive, and the error
\* is logged.
RedisSave(keys, instance_name, data, server_id, now, ttl) ==
    IF ttl <= 0 THEN keys
    ELSE DictSet(keys, RedisKey(instance_name, server_id),
                 [value |-> json_dumps(data), expires |-> now + ttl])

\* RedisCacheManager.load: GET answers nothing for a key that is absent or expired.
RedisLoad(keys, instance_name, server_id, load_stale, now) ==
    LET key == RedisKey(instance_name, server_id)
    IN  IF key \in DOMAIN keys /\ now < keys[key].expires
        THEN [found |-> TRUE, data |-> json_loads(keys[key].value), keys |-> keys]
        ELSE [found |-> FALSE, data |-> EmptyIndex, keys |-> keys]

\* The index a scan of `cat` builds when nothing fails and one consumer takes the
\* items in order; used for the snapshot an earlier run of the program left behind.
RECURSIVE MergeItems(_, _)
MergeItems(idx, items) ==
    IF items = <<>> THEN idx
    ELSE LET e == ExpandItem(Head(items))
         IN  MergeItems(IF e.ok
                        THEN [path_cache |-> DictUpdate(idx.path_cache, e.maps.cache),
                              dir_map |-> MergeDirMap(idx.dir_map, e.maps.dmap)]
                        ELSE idx, Tail(items))

RECURSIVE AddLibraries(_, _)
AddLibraries(idx, libs) ==
    IF libs = <<>> THEN idx
    ELSE AddLibraries([path_cache |-> DictSet(idx.path_cache, join(Root, Head(libs).title), DirDetails),
                       dir_map |-> [idx.dir_map EXCEPT ![Root] = Append(@, Head(libs).title)]],
                      Tail(libs))

SelectLibs(libs) == SelectSeq(libs, LAMBDA l : l.type \in {"movie", "show"})

\* ------------------------------------------------------------- state

instance_name == "inst"

machineIdentifier == "mach"

VARIABLES
    cfg,                \* consumer_threads, refresh_interval_minutes, ttl_hours, cache_type
    startStore,         \* what the store held when the process started
    rt,                 \* the last save and the load that followed it at once
    catalog, failing,   \* the remote during the current scan: its content, its failing calls
    path_cache, dir_map, pcGen, dmGen, status, plex, rwlock,
    sqlite, redis, store_closed, now,
    mpc, cache_loaded, hasEvent, first_scan_complete_event,
    rpc, is_first_scan, rescan_triggered_event, shutdown_event, rescan_triggered,
    libraries_data, final_cache, final_dir_map, task_queue, unfinished_tasks,
    ppc, plib, chunk_sizes, start_index, page, pidx,
    cpc, citem,
    scanCount, obs, owed, trigScans, fetched, enqueued, libEnd, bootLog,
    ret,                \* the last filesystem call: its arguments and what it returned
    idleReq             \* a rescan request arrived while the refresh loop was waiting

cfgVars == <<cfg, startStore, rt>>
remoteVars == <<catalog, failing>>
servedVars == <<path_cache, dir_map, pcGen, dmGen>>
storeVars == <<sqlite, redis, store_closed, now>>
mainVars == <<mpc, cache_loaded, hasEvent, bootLog>>
loopVars == <<rpc, is_first_scan, rescan_triggered>>
buildVars == <<libraries_data, final_cache, final_dir_map>>
queueVars == <<task_queue, unfinished_tasks>>
prodVars == <<ppc, plib, chunk_sizes, start_index, page, pidx, fetched, enqueued, libEnd>>
consVars == <<cpc, citem>>
ghostVars == <<scanCount, obs, owed, trigScans, ret, idleReq>>

vars == <<cfg, startStore, rt, catalog, failing, path_cache, dir_map, pcGen, dmGen, status, plex, rwlock,
          sqlite, redis, store_closed, now, mpc, cache_loaded, hasEvent,
          first_scan_complete_event, rpc, is_first_scan, rescan_triggered_event,
          shutdown_event, rescan_triggered, libraries_data, final_cache, final_dir_map,
          task_queue, unfinished_tasks, ppc, plib, chunk_sizes, start_index, page, pidx,
          cpc, citem, scanCount, obs, owed, trigScans, fetched, enqueued, libEnd,
          bootLog, ret, idleReq>>

Consumers == 1..cfg.consumer_threads

\* Queue(maxsize=consumer_threads * 4)
maxsize == cfg.consumer_threads * 4

\* A queue without a limit.
QueueNeverFull(q) == FALSE

\* queue.Queue: a maxsize that is not positive means no limit.
QueueFull(q) == maxsize > 0 /\ Len(q) >= maxsize

NoFailures == (1 :> {}) @@ (2 :> {}) @@ (3 :> {})

\* The snapshot an earlier run of the program scanned and saved `age` hours before
\* this start, under the identifier _update_cache passes to save.
EarlierIndex ==
    MergeItems(AddLibraries([path_cache |-> EmptyDict, dir_map |-> (Root :> <<>>)],
                            SelectLibs(<<LibM, LibT>>)), <<MovA>>)

\* Before any filesystem call.
NoCall == [op |-> "none", path |-> <<>>, flags |-> 0, errno |-> "OK", value |-> <<>>,
           kind |-> "none"]

\* rt records the last save and, when a load of the same identifier followed it at
\* once, what the load returned (phase, server_id, saved, found, loaded); and of the
\* last load of all: the identifier asked for, whether the store held a snapshot
\* under it, what that snapshot was, what the load returned and whose records it
\* deleted.
NoRoundTrip == [phase |-> "none", server_id |-> None, saved |-> EmptyIndex, found |-> FALSE,
                loaded |-> EmptyIndex, asked |-> None, held |-> FALSE, held_data |-> EmptyIndex,
                got |-> FALSE, got_data |-> EmptyIndex, deleted |-> {}]

InitWith(cfgs, ages) ==
    /\ cfg \in cfgs
    /\ catalog = Catalog(<<>>, <<>>, <<>>)
    /\ failing = NoFailures
    /\ path_cache = EmptyDict /\ dir_map = EmptyDict
    /\ pcGen = 0 /\ dmGen = 0
    /\ status = "Initializing"
    /\ plex = None
    /\ rwlock = "free"
    /\ store_closed = FALSE
    /\ rt = NoRoundTrip
    /\ \E age \in ages :
          IF age < 0 \/ cfg.cache_type = "none"
          THEN sqlite = EmptyDict /\ redis = EmptyDict /\ now = 0 /\ startStore = "empty"
          ELSE /\ now = age * Hour
               /\ startStore = IF now >= ttl_seconds(cfg.ttl_hours) THEN "expired" ELSE "fresh"
               /\ sqlite = IF cfg.cache_type = "sqlite"
                           THEN SQLiteSave(EmptyDict, EarlierIndex, machineIdentifier, 0)
                           ELSE EmptyDict
               /\ redis = IF cfg.cache_type = "redis"
                          THEN RedisSave(EmptyDict, instance_name, EarlierIndex,
                                         machineIdentifier, 0, ttl_seconds(cfg.ttl_hours))
                          ELSE EmptyDict
    /\ mpc = "load_fresh"
    /\ cache_loaded = FALSE
    /\ hasEvent = FALSE
    /\ first_scan_complete_event = FALSE
    /\ rpc = "none"
    /\ is_first_scan = TRUE
    /\ rescan_triggered_event = FALSE
    /\ shutdown_event = FALSE
    /\ rescan_triggered = FALSE
    /\ libraries_data = <<>>
    /\ final_cache = EmptyDict /\ final_dir_map = EmptyDict
    /\ task_queue = <<>> /\ unfinished_tasks = 0
    /\ ppc = "idle" /\ plib = 1 /\ chunk_sizes = <<>> /\ start_index = 0
    /\ page = <<>> /\ pidx = 0
    /\ cpc = [c \in Consumers |-> "idle"]
    /\ citem = [c \in Consumers |-> Sentinel]
    /\ scanCount = 0
    /\ obs = <<0, 0>>
    /\ owed = 0
    /\ trigScans = 0
    /\ fetched = [k \in 1..3 |-> {}]
    /\ enqueued = [k \in 1..3 |-> 0]
    /\ libEnd = [k \in 1..3 |-> "none"]
    /\ bootLog = <<>>
    /\ ret = NoCall
    /\ idleReq = FALSE

\* ------------------------------------------------------------- the cache manager

\* cache_manager.load(server_id, load_stale): [data, sqlite, redis].
CacheLoad(server_id, load_stale) ==
    IF cfg.cache_type = "sqlite"
    THEN LET r == SQLiteLoad(sqlite, server_id, load_stale, now, ttl_seconds(cfg.ttl_hours))
         IN  [found |-> r.found, data |-> r.data, sqlite |-> r.rows, redis |-> redis]
    ELSE LET r == RedisLoad(redis, instance_name, server_id, load_stale, now)
         IN  [found |-> r.found, data |-> r.data, sqlite |-> sqlite, redis |-> r.keys]

\* ------------------------------------------------------------- __init__

\* _perform_initial_cache_load, the fresh attempt (lines 109-115).
LoadFresh ==
    /\ mpc = "load_fresh"
    /\ IF cfg.cache_type = "none"
       THEN /\ mpc' = "start"
            /\ bootLog' = Append(bootLog, "no_manager")
            /\ UNCHANGED <<path_cache, dir_map, cache_loaded, sqlite, redis>>
       ELSE LET r == CacheLoad(instance_name, FALSE)
            IN  /\ sqlite' = r.sqlite /\ redis' = r.redis
                /\ IF r.found
                   THEN /\ path_cache' = r.data.path_cache
                        /\ dir_map' = r.data.dir_map
                        /\ IF r.data.path_cache # EmptyDict
                           THEN /\ cache_loaded' = TRUE /\ mpc' = "start"
                                /\ bootLog' = Append(bootLog, "fresh_hit")
                           ELSE /\ cache_loaded' = FALSE /\ mpc' = "load_stale"
                                /\ bootLog' = Append(bootLog, "fresh_empty")
                   ELSE /\ mpc' = "load_stale"
                        /\ bootLog' = Append(bootLog, "fresh_miss")
                        /\ UNCHANGED <<path_cache, dir_map, cache_loaded>>
    /\ UNCHANGED <<cfgVars, remoteVars, pcGen, dmGen, status, plex, rwlock, store_closed, now,
                   hasEvent, first_scan_complete_event, loopVars, rescan_triggered_event,
                   shutdown_event, buildVars, queueVars, prodVars, consVars, ghostVars>>

\* _perform_initial_cache_load, the stale attempt (lines 115-120).
LoadStale ==
    /\ mpc = "load_stale"
    /\ LET r == CacheLoad(instance_name, TRUE)
       IN  /\ sqlite' = r.sqlite /\ redis' = r.redis
           /\ IF r.found
              THEN /\ path_cache' = r.data.path_cache
                   /\ dir_map' = r.data.dir_map
                   /\ cache_loaded' = TRUE
                   /\ bootLog' = Append(bootLog, "stale_hit")
              ELSE /\ cache_loaded' = FALSE
                   /\ bootLog' = Append(bootLog, "stale_miss")
                   /\ UNCHANGED <<path_cache, dir_map>>
    /\ mpc' = "start"
    /\ UNCHANGED <<cfgVars, remoteVars, pcGen, dmGen, status, plex, rwlock, store_closed, now,
                   hasEvent, first_scan_complete_event, loopVars, rescan_triggered_event,
                   shutdown_event, buildVars, queueVars, prodVars, consVars, ghostVars>>

\* Lines 66-75: the refresh thread is started when the interval is not negative; the
\* constructor returns at once when a cache was loaded.
StartThreads ==
    /\ mpc = "start"
    /\ rpc' = IF cfg.refresh_interval_minutes >= 0 THEN "loop" ELSE rpc
    /\ mpc' = IF cache_loaded THEN "mounted" ELSE "event"
    /\ UNCHANGED <<cfgVars, remoteVars, servedVars, status, plex, rwlock, storeVars,
                   cache_loaded, hasEvent, bootLog, first_scan_complete_event, is_first_scan,
                   rescan_triggered, rescan_triggered_event, shutdown_event, buildVars,
                   queueVars, prodVars, consVars, ghostVars>>

\* Line 77: self.first_scan_complete_event = Event()
CreateEvent ==
    /\ mpc = "event"
    /\ hasEvent' = TRUE
    /\ first_scan_complete_event' = FALSE
    /\ mpc' = "wait"
    /\ UNCHANGED <<cfgVars, remoteVars, servedVars, status, plex, rwlock, storeVars,
                   cache_loaded, bootLog, loopVars, rescan_triggered_event, shutdown_event,
                   buildVars, queueVars, prodVars, consVars, ghostVars>>

\* Line 78: first_scan_complete_event.wait() returns; the filesystem is then mounted.
WaitFirstScan ==
    /\ mpc = "wait"
    /\ first_scan_complete_event
    /\ mpc' = "mounted"
    /\ UNCHANGED <<cfgVars, remoteVars, servedVars, status, plex, rwlock, storeVars,
                   cache_loaded, hasEvent, bootLog, first_scan_complete_event, loopVars,
                   rescan_triggered_event, shutdown_event, buildVars, queueVars, prodVars,
                   consVars, ghostVars>>

\* destroy: raise the shutdown flag, close the cache manager.
Destroy ==
    /\ mpc = "mounted"
    /\ shutdown_event' = TRUE
    /\ store_closed' = (cfg.cache_type # "none")
    /\ mpc' = "destroyed"
    /\ UNCHANGED <<cfgVars, remoteVars, servedVars, status, plex, rwlock, sqlite, redis, now,
                   cache_loaded, hasEvent, bootLog, first_scan_complete_event, loopVars,
                   rescan_triggered_event, buildVars, queueVars, prodVars, consVars,
                   ghostVars>>

\* A scan is in progress: the refresh thread is inside _update_cache.
Scanning ==
    rpc \in {"build_start", "build_connect", "build_sections", "await_producer", "join",
             "await_consumers", "update_check", "pub_pc", "pub_dm", "save"}

\* How many rescan requests are counted apart.
MaxRequests == 2

\* handle_sighup, installed once the constructor has returned.
\* owed counts the requests that arrive while a scan runs; trigScans counts the scans
\* the loop has started on a request since the last request arrived; idleReq marks a
\* request that arrived while the loop was in one of its waits.
HandleSighup ==
    /\ mpc = "mounted"
    /\ rescan_triggered_event' = TRUE
    /\ owed' = IF Scanning THEN Min(owed + 1, MaxRequests) ELSE owed
    /\ trigScans' = 0
    /\ idleReq' = IF rpc \in {"wait_rescan", "wait_shutdown"} /\ ~shutdown_event
                  THEN TRUE ELSE idleReq
    /\ UNCHANGED <<cfgVars, remoteVars, servedVars, status, plex, rwlock, storeVars, mainVars,
                   first_scan_complete_event, loopVars, shutdown_event, buildVars, queueVars,
                   prodVars, consVars, scanCount, obs, ret>>

\* ------------------------------------------------------------- _refresh_loop

\* The head of the loop (lines 239-247).
RefreshLoop ==
    /\ rpc = "loop"
    /\ IF shutdown_event THEN rpc' = "done"
       ELSE IF is_first_scan THEN scanCount < MaxScans /\ rpc' = "build_start"
       ELSE IF cfg.refresh_interval_minutes = 0 THEN rpc' = "wait_shutdown"
       ELSE rpc' = "wait_rescan"
    /\ UNCHANGED <<cfgVars, remoteVars, servedVars, status, plex, rwlock, storeVars, mainVars,
                   first_scan_complete_event, is_first_scan, rescan_triggered,
                   rescan_triggered_event, shutdown_event, buildVars, queueVars, prodVars,
                   consVars, ghostVars>>

\* Line 247: an interval of zero waits for the shutdown flag and leaves the loop.
WaitShutdown ==
    /\ rpc = "wait_shutdown"
    /\ shutdown_event
    /\ rpc' = "done"
    /\ UNCHANGED <<cfgVars, remoteVars, servedVars, status, plex, rwlock, storeVars, mainVars,
                   first_scan_complete_event, is_first_scan, rescan_triggered,
                   rescan_triggered_event, shutdown_event, buildVars, queueVars, prodVars,
                   consVars, ghostVars>>

\* Line 249: rescan_triggered_event.wait(timeout) returns True, the flag being set.
WaitRescanSet ==
    /\ rpc = "wait_rescan"
    /\ rescan_triggered_event
    /\ rescan_triggered' = TRUE
    /\ rpc' = "check"
    /\ UNCHANGED <<cfgVars, remoteVars, servedVars, status, plex, rwlock, storeVars, mainVars,
                   first_scan_complete_event, is_first_scan, rescan_triggered_event,
                   shutdown_event, buildVars, queueVars, prodVars, consVars, ghostVars>>

\* Line 249: the wait times out after the interval and returns False.
WaitRescanTimeout ==
    /\ rpc = "wait_rescan"
    /\ ~rescan_triggered_event
    /\ rescan_triggered' = FALSE
    /\ rpc' = "check"
    /\ UNCHANGED <<cfgVars, remoteVars, servedVars, status, plex, rwlock, storeVars, mainVars,
                   first_scan_complete_event, is_first_scan, rescan_triggered_event,
                   shutdown_event, buildVars, queueVars, prodVars, consVars, ghostVars>>

\* Lines 250-254: leave on shutdown, clear the flag of a triggered rescan, scan.
RefreshCheck ==
    /\ rpc = "check"
    /\ IF shutdown_event
       THEN rpc' = "done" /\ UNCHANGED <<rescan_triggered_event, trigScans, idleReq>>
       ELSE /\ scanCount < MaxScans
            /\ rescan_triggered_event' = IF rescan_triggered THEN FALSE ELSE rescan_triggered_event
            /\ trigScans' = IF rescan_triggered THEN trigScans + 1 ELSE trigScans
            /\ idleReq' = IF rescan_triggered THEN FALSE ELSE idleReq
            /\ rpc' = "build_start"
    /\ UNCHANGED <<cfgVars, remoteVars, servedVars, status, plex, rwlock, storeVars, mainVars,
                   first_scan_complete_event, is_first_scan, rescan_triggered, shutdown_event,
                   buildVars, queueVars, prodVars, consVars, scanCount, obs, owed, ret>>

\* A loop that takes every scan for its first.
FirstScanPending == TRUE

\* Line 244: is_first_scan = False
FirstScanOver == FALSE

\* Lines 242-244 after the first scan, and the return to the head of the loop after
\* any other: the event is set only if the attribute exists by now.
ScanDone ==
    /\ rpc = "scan_done"
    /\ first_scan_complete_event' =
          IF is_first_scan /\ hasEvent THEN TRUE ELSE first_scan_complete_event
    /\ is_first_scan' = FirstScanOver
    /\ rpc' = "loop"
    /\ UNCHANGED <<cfgVars, remoteVars, servedVars, status, plex, rwlock, storeVars, mainVars,
                   rescan_triggered, rescan_triggered_event, shutdown_event, buildVars,
                   queueVars, prodVars, consVars, ghostVars>>

\* ------------------------------------------------------------- _build_cache_from_plex

\* Line 202, with the remote's content and failing calls for this scan drawn; the
\* call's locals start empty.
BuildStart(remotes) ==
    /\ rpc = "build_start"
    /\ rwlock = "free"
    /\ status' = "Scanning"
    /\ scanCount' = scanCount + 1
    /\ owed' = 0
    /\ \E r \in remotes : catalog' = r.catalog /\ failing' = r.failing
    /\ libraries_data' = <<>>
    /\ final_cache' = EmptyDict /\ final_dir_map' = EmptyDict
    /\ fetched' = [k \in 1..3 |-> {}]
    /\ enqueued' = [k \in 1..3 |-> 0]
    /\ libEnd' = [k \in 1..3 |-> "none"]
    /\ ppc' = "idle"
    /\ rpc' = "build_connect"
    /\ UNCHANGED <<cfgVars, servedVars, plex, rwlock, storeVars, mainVars,
                   first_scan_complete_event, is_first_scan, rescan_triggered,
                   rescan_triggered_event, shutdown_event, queueVars, plib, chunk_sizes,
                   start_index, page, pidx, consVars, obs, trigScans, ret, idleReq>>

\* Lines 203-206: _connect_to_plex; a failure returns the empty pair.
BuildConnect(outcomes) ==
    /\ rpc = "build_connect"
    /\ \E ok \in outcomes :
          IF ok
          THEN /\ plex' = "conn"
               /\ rpc' = "build_sections"
               /\ UNCHANGED <<status, final_cache, final_dir_map>>
          ELSE /\ rwlock = "free"
               /\ plex' = None
               /\ status' = "Error: Connection Failed"
               /\ final_cache' = EmptyDict
               /\ final_dir_map' = EmptyDict
               /\ rpc' = "update_check"
    /\ UNCHANGED <<cfgVars, remoteVars, servedVars, rwlock, storeVars, mainVars,
                   first_scan_complete_event, is_first_scan, rescan_triggered,
                   rescan_triggered_event, shutdown_event, libraries_data, queueVars,
                   prodVars, consVars, ghostVars>>

\* Lines 207-215: the library directories, the queue, the producer and the consumers.
\* plex_conn.library.sections() is a request of its own, made outside any try: when
\* it raises, the exception leaves _build_cache_from_plex, _update_cache and
\* _refresh_loop, and the refresh thread ends where it stands.
BuildSections(outcomes) ==
    /\ rpc = "build_sections"
    /\ \E listed \in outcomes :
          IF listed
          THEN /\ LET libs == SelectLibs(catalog.libs)
                      idx == AddLibraries([path_cache |-> EmptyDict,
                                           dir_map |-> (Root :> <<>>)], libs)
                  IN  /\ libraries_data' = libs
                      /\ final_cache' = idx.path_cache
                      /\ final_dir_map' = idx.dir_map
               /\ task_queue' = <<>>
               /\ unfinished_tasks' = 0
               /\ ppc' = "connect"
               /\ plib' = 1 /\ chunk_sizes' = <<>> /\ start_index' = 0
               /\ page' = <<>> /\ pidx' = 0
               /\ cpc' = [c \in Consumers |-> "loop"]
               /\ citem' = [c \in Consumers |-> Sentinel]
               /\ rpc' = "await_producer"
          ELSE /\ final_dir_map' = (Root :> <<>>)
               /\ rpc' = "crashed"
               /\ UNCHANGED <<libraries_data, final_cache, queueVars, ppc, plib, chunk_sizes,
                              start_index, page, pidx, consVars>>
    /\ UNCHANGED <<fetched, enqueued, libEnd>>
    /\ UNCHANGED <<cfgVars, remoteVars, servedVars, status, plex, rwlock, storeVars, mainVars,
                   first_scan_complete_event, is_first_scan, rescan_triggered,
                   rescan_triggered_event, shutdown_event, ghostVars>>

\* Line 216: producer_future.result()
AwaitProducer ==
    /\ rpc = "await_producer"
    /\ ppc = "done"
    /\ rpc' = "join"
    /\ UNCHANGED <<cfgVars, remoteVars, servedVars, status, plex, rwlock, storeVars, mainVars,
                   first_scan_complete_event, is_first_scan, rescan_triggered,
                   rescan_triggered_event, shutdown_event, buildVars, queueVars, prodVars,
                   consVars, ghostVars>>

RECURSIVE Sentinels(_)
Sentinels(n) == IF n = 0 THEN <<>> ELSE <<Sentinel>> \o Sentinels(n - 1)

\* Lines 217-218: task_queue.join() returns once every item put was marked done; then
\* one sentinel per consumer is put.
JoinQueue ==
    /\ rpc = "join"
    /\ unfinished_tasks = 0
    /\ task_queue' = task_queue \o Sentinels(cfg.consumer_threads)
    /\ unfinished_tasks' = cfg.consumer_threads
    /\ rpc' = "await_consumers"
    /\ UNCHANGED <<cfgVars, remoteVars, servedVars, status, plex, rwlock, storeVars, mainVars,
                   first_scan_complete_event, is_first_scan, rescan_triggered,
                   rescan_triggered_event, shutdown_event, buildVars, prodVars, consVars,
                   ghostVars>>

\* Lines 219-220: every consumer has returned; the working pair is the scan's result.
AwaitConsumers ==
    /\ rpc = "await_consumers"
    /\ \A c \in Consumers : cpc[c] = "done"
    /\ rpc' = "update_check"
    /\ UNCHANGED <<cfgVars, remoteVars, servedVars, status, plex, rwlock, storeVars, mainVars,
                   first_scan_complete_event, is_first_scan, rescan_triggered,
                   rescan_triggered_event, shutdown_event, buildVars, queueVars, prodVars,
                   consVars, ghostVars>>

\* ------------------------------------------------------------- _update_cache

\* d.get('/') is falsy: absent, or an empty list.
NoRootChildren(dm) == Root \notin DOMAIN dm \/ dm[Root] = <<>>

\* Line 225: the scan's result is refused.
ScanRejected(new_path_cache, new_dir_map) ==
    new_path_cache = EmptyDict \/ NoRootChildren(new_dir_map)

\* A publish that does not take rwlock.
AcquireNothing == "free"

\* What line 229 makes of rwlock.
AcquireForPublish == "update"

\* Lines 225-229: an empty result keeps the old cache; any other takes the lock.
UpdateCheck ==
    /\ rpc = "update_check"
    /\ rwlock = "free"
    /\ IF ScanRejected(final_cache, final_dir_map)
       THEN /\ status' = "Error: Scan Failed"
            /\ rpc' = "scan_done"
            /\ UNCHANGED rwlock
       ELSE /\ rwlock' = AcquireForPublish
            /\ rpc' = "pub_pc"
            /\ UNCHANGED status
    /\ UNCHANGED <<cfgVars, remoteVars, servedVars, plex, storeVars, mainVars,
                   first_scan_complete_event, is_first_scan, rescan_triggered,
                   rescan_triggered_event, shutdown_event, buildVars, queueVars, prodVars,
                   consVars, ghostVars>>

\* Line 231, the first store of the tuple assignment: self.path_cache.
PublishPathCache ==
    /\ rpc = "pub_pc"
    /\ path_cache' = final_cache
    /\ pcGen' = scanCount
    /\ rpc' = "pub_dm"
    /\ UNCHANGED <<cfgVars, remoteVars, dir_map, dmGen, status, plex, rwlock, storeVars,
                   mainVars, first_scan_complete_event, is_first_scan, rescan_triggered,
                   rescan_triggered_event, shutdown_event, buildVars, queueVars, prodVars,
                   consVars, ghostVars>>

\* Lines 231-233: the second store, self.dir_map, the status, and the lock's release.
PublishDirMap ==
    /\ rpc = "pub_dm"
    /\ dir_map' = final_dir_map
    /\ dmGen' = scanCount
    /\ status' = "Idle"
    /\ rwlock' = "free"
    /\ rpc' = "save"
    /\ UNCHANGED <<cfgVars, remoteVars, path_cache, pcGen, plex, storeVars, mainVars,
                   first_scan_complete_event, is_first_scan, rescan_triggered,
                   rescan_triggered_event, shutdown_event, buildVars, queueVars, prodVars,
                   consVars, ghostVars>>

\* cache_manager.save(data, server_id): a closed SQLite connection raises, which save
\* logs; the Redis client reconnects.
CacheSave(data, server_id) ==
    IF cfg.cache_type = "sqlite"
    THEN [sqlite |-> IF store_closed THEN sqlite ELSE SQLiteSave(sqlite, data, server_id, now),
          redis |-> redis]
    ELSE [sqlite |-> sqlite,
          redis |-> RedisSave(redis, instance_name, data, server_id, now,
                              ttl_seconds(cfg.ttl_hours))]

\* Lines 234-235: the published pair is saved under the server's machineIdentifier,
\* when there is a cache manager, an entry, and a remote-session handle.
SaveSnapshot ==
    /\ rpc = "save"
    /\ IF cfg.cache_type # "none" /\ Cardinality(DOMAIN final_cache) > 0 /\ plex # None
       THEN LET r == CacheSave([path_cache |-> path_cache, dir_map |-> dir_map],
                               machineIdentifier)
            IN  sqlite' = r.sqlite /\ redis' = r.redis
       ELSE UNCHANGED <<sqlite, redis>>
    /\ rpc' = "scan_done"
    /\ UNCHANGED <<cfgVars, remoteVars, servedVars, status, plex, rwlock, store_closed, now,
                   mainVars, first_scan_complete_event, is_first_scan, rescan_triggered,
                   rescan_triggered_event, shutdown_event, buildVars, queueVars, prodVars,
                   consVars, ghostVars>>

\* ------------------------------------------------------------- _producer_thread_worker

CurLib == libraries_data[plib]

\* Lines 125-128: the producer's own connection; without it the producer returns, and
\* no library of the scan is fetched.
ProducerConnect(outcomes) ==
    /\ ppc = "connect"
    /\ \E ok \in outcomes :
          IF ok THEN plex' = "conn" /\ ppc' = "nextlib" /\ UNCHANGED libEnd
          ELSE /\ plex' = None /\ ppc' = "done"
               /\ libEnd' = [k \in 1..3 |-> "unconnected"]
    /\ UNCHANGED <<cfgVars, remoteVars, servedVars, status, rwlock, storeVars, mainVars,
                   first_scan_complete_event, loopVars, rescan_triggered_event,
                   shutdown_event, buildVars, queueVars, plib, chunk_sizes, start_index,
                   page, pidx, fetched, enqueued, consVars, ghostVars>>

\* Lines 129-137: the next library; a failed sectionByID skips it.
ProducerNextLibrary ==
    /\ ppc = "nextlib"
    /\ IF plib > Len(libraries_data) \/ shutdown_event
       THEN ppc' = "done" /\ UNCHANGED <<plib, chunk_sizes, start_index, libEnd>>
       ELSE IF SectionCall \in failing[CurLib.key]
       THEN /\ plib' = plib + 1
            /\ libEnd' = [libEnd EXCEPT ![CurLib.key] = "skipped"]
            /\ UNCHANGED <<ppc, chunk_sizes, start_index>>
       ELSE /\ chunk_sizes' = ChunkLadder
            /\ start_index' = 0
            /\ ppc' = "fetch"
            /\ UNCHANGED <<plib, libEnd>>
    /\ UNCHANGED <<cfgVars, remoteVars, servedVars, status, plex, rwlock, storeVars, mainVars,
                   first_scan_complete_event, loopVars, rescan_triggered_event,
                   shutdown_event, buildVars, queueVars, page, pidx, fetched, enqueued,
                   consVars, ghostVars>>

\* Line 148: the ladder after a page that was fetched and enqueued.
LadderAfterSuccess(sizes) == IF Len(sizes) > 1 THEN ChunkLadder ELSE sizes

\* A ladder that drops two sizes on a failure.
LadderSkipsOne(sizes) == IF Len(sizes) >= 2 THEN Tail(Tail(sizes)) ELSE <<>>

\* Lines 149-153: the ladder after a failed request.
LadderAfterFailure(sizes) == Tail(sizes)

\* A producer that returns when a library is abandoned.
AbandonScan == "done"

\* Line 152: the break after the last chunk size failed leaves the page loop, and the
\* for loop goes on with the next library.
AfterAbandon == "nextlib"

\* Lines 138-145 and 149-153: one request for a page at the head of the ladder.
ProducerFetch ==
    /\ ppc = "fetch"
    /\ LET k == CurLib.key
           current_chunk_size == chunk_sizes[1]
           items == FetchPage(catalog.items[k], start_index, current_chunk_size)
       IN  IF shutdown_event
           THEN /\ plib' = plib + 1 /\ ppc' = "nextlib"
                /\ libEnd' = [libEnd EXCEPT ![k] = "cancelled"]
                /\ UNCHANGED <<chunk_sizes, page, pidx, fetched>>
           ELSE IF current_chunk_size \in failing[k]
           THEN /\ chunk_sizes' = LadderAfterFailure(chunk_sizes)
                /\ IF chunk_sizes' = <<>>
                   THEN /\ plib' = plib + 1 /\ ppc' = AfterAbandon
                        /\ libEnd' = [libEnd EXCEPT ![k] = "abandoned"]
                   ELSE UNCHANGED <<plib, ppc, libEnd>>
                /\ UNCHANGED <<page, pidx, fetched>>
           ELSE /\ fetched' = [fetched EXCEPT ![k] = @ \cup {current_chunk_size}]
                /\ IF items = <<>>
                   THEN /\ plib' = plib + 1 /\ ppc' = "nextlib"
                        /\ libEnd' = [libEnd EXCEPT ![k] = "finished"]
                        /\ UNCHANGED <<page, pidx>>
                   ELSE /\ page' = items /\ pidx' = 0 /\ ppc' = "put"
                        /\ UNCHANGED <<plib, libEnd>>
                /\ UNCHANGED chunk_sizes
    /\ UNCHANGED <<cfgVars, remoteVars, servedVars, status, plex, rwlock, storeVars, mainVars,
                   first_scan_complete_event, loopVars, rescan_triggered_event,
                   shutdown_event, buildVars, queueVars, start_index, enqueued, consVars,
                   ghostVars>>

\* Lines 146-148: task_queue.put(item) blocks while the queue is full; after the last
\* item of the page the offset advances and the ladder is reset.
ProducerPut ==
    /\ ppc = "put"
    /\ ~QueueFull(task_queue)
    /\ task_queue' = Append(task_queue, page[pidx + 1])
    /\ unfinished_tasks' = unfinished_tasks + 1
    /\ enqueued' = [enqueued EXCEPT ![CurLib.key] = @ + 1]
    /\ IF pidx + 1 = Len(page)
       THEN /\ start_index' = start_index + Len(page)
            /\ chunk_sizes' = LadderAfterSuccess(chunk_sizes)
            /\ page' = <<>> /\ pidx' = 0
            /\ ppc' = "fetch"
       ELSE /\ pidx' = pidx + 1
            /\ UNCHANGED <<start_index, chunk_sizes, page, ppc>>
    /\ UNCHANGED <<cfgVars, remoteVars, servedVars, status, plex, rwlock, storeVars, mainVars,
                   first_scan_complete_event, loopVars, rescan_triggered_event,
                   shutdown_event, buildVars, plib, fetched, libEnd, consVars, ghostVars>>

\* ------------------------------------------------------------- _consumer_worker

\* Line 159: the loop's test of the shutdown flag.
ConsumerLoop(c) ==
    /\ cpc[c] = "loop"
    /\ cpc' = [cpc EXCEPT ![c] = IF shutdown_event THEN "done" ELSE "get"]
    /\ UNCHANGED <<cfgVars, remoteVars, servedVars, status, plex, rwlock, storeVars, mainVars,
                   first_scan_complete_event, loopVars, rescan_triggered_event,
                   shutdown_event, buildVars, queueVars, prodVars, citem, ghostVars>>

\* Lines 161-162 and 197: get(timeout=1) hands over the head of the queue, the sentinel
\* ends the worker, and an empty queue sends it back to the loop's test.
ConsumerGet(c) ==
    /\ cpc[c] = "get"
    /\ IF task_queue = <<>>
       THEN /\ cpc' = [cpc EXCEPT ![c] = "loop"]
            /\ UNCHANGED <<task_queue, citem>>
       ELSE /\ task_queue' = Tail(task_queue)
            /\ IF Head(task_queue) = Sentinel
               THEN cpc' = [cpc EXCEPT ![c] = "done"] /\ UNCHANGED citem
               ELSE /\ cpc' = [cpc EXCEPT ![c] = "work"]
                    /\ citem' = [citem EXCEPT ![c] = Head(task_queue)]
    /\ UNCHANGED <<cfgVars, remoteVars, servedVars, status, plex, rwlock, storeVars, mainVars,
                   first_scan_complete_event, loopVars, rescan_triggered_event,
                   shutdown_event, buildVars, unfinished_tasks, prodVars, ghostVars>>

\* Lines 163-198: the item is expanded into the worker's own maps, which are merged
\* under the merge lock; an expansion that raises merges nothing. Either way the item
\* is marked done.
ConsumerWork(c) ==
    /\ cpc[c] = "work"
    /\ LET e == ExpandItem(citem[c])
       IN  IF e.ok
           THEN /\ final_cache' = DictUpdate(final_cache, e.maps.cache)
                /\ final_dir_map' = MergeDirMap(final_dir_map, e.maps.dmap)
           ELSE UNCHANGED <<final_cache, final_dir_map>>
    /\ unfinished_tasks' = unfinished_tasks - 1
    /\ cpc' = [cpc EXCEPT ![c] = "loop"]
    /\ citem' = [citem EXCEPT ![c] = Sentinel]
    /\ UNCHANGED <<cfgVars, remoteVars, servedVars, status, plex, rwlock, storeVars, mainVars,
                   first_scan_complete_event, loopVars, rescan_triggered_event,
                   shutdown_event, libraries_data, task_queue, prodVars, ghostVars>>

\* ------------------------------------------------------------- the filesystem's reads

\* What a read under rwlock sees of the served pair: the scan that wrote path_cache
\* and the scan that wrote dir_map.
Observe == <<pcGen, dmGen>>

\* os.O_RDONLY, and the other open flags a caller passes (their values on Linux).
O_RDONLY == 0
O_WRONLY == 1
O_RDWR == 2
O_CREAT == 64

\* a & b on integers that are not negative.
RECURSIVE BitAnd(_, _)
BitAnd(a, b) ==
    IF a = 0 \/ b = 0 THEN 0
    ELSE (a % 2) * (b % 2) + 2 * BitAnd(a \div 2, b \div 2)

\* A filesystem call and its outcome: the value returned, or the errno of the
\* FuseOSError raised.
\* What path_cache holds for a path.
Kind(path) == IF path \in DOMAIN path_cache THEN path_cache[path].type ELSE "none"

\* kind notes what path_cache held for the path when the call was made.
Ret(op, path, flags, errno, value) ==
    [op |-> op, path |-> path, flags |-> flags, errno |-> errno, value |-> value,
     kind |-> Kind(path)]

\* getattr (lines 306-313): the root is a directory whatever the index holds.
getattr(path) ==
    IF path = Root THEN Ret("getattr", path, 0, "OK", <<"S_IFDIR">>)
    ELSE IF path \in DOMAIN path_cache /\ path_cache[path].type = "dir"
    THEN Ret("getattr", path, 0, "OK", <<"S_IFDIR">>)
    ELSE IF path \in DOMAIN path_cache /\ path_cache[path].type = "file"
    THEN Ret("getattr", path, 0, "OK", <<"S_IFREG">>)
    ELSE Ret("getattr", path, 0, "ENOENT", <<>>)

\* readdir (lines 315-318): the children dir_map holds for the path, after . and ..
readdir(path) ==
    IF path \notin DOMAIN dir_map THEN Ret("readdir", path, 0, "ENOENT", <<>>)
    ELSE Ret("readdir", path, 0, "OK", <<<<".">>, <<"..">>>> \o dir_map[path])

\* open (lines 284-289): not-found unless the path is a file of the index, then the
\* test of the flags against os.O_RDONLY.
open(path, flags) ==
    IF path \notin DOMAIN path_cache \/ path_cache[path].type # "file"
    THEN Ret("open", path, flags, "ENOENT", <<>>)
    ELSE IF BitAnd(flags, O_RDONLY) # O_RDONLY
    THEN Ret("open", path, flags, "EACCES", <<>>)
    ELSE Ret("open", path, flags, "OK", <<>>)

\* getattr: a lookup of path_cache under rwlock.
Getattr(paths) ==
    /\ mpc = "mounted"
    /\ rwlock = "free"
    /\ obs' = Observe
    /\ \E path \in paths : ret' = getattr(path)
    /\ UNCHANGED <<cfgVars, remoteVars, servedVars, status, plex, rwlock, storeVars, mainVars,
                   first_scan_complete_event, loopVars, rescan_triggered_event,
                   shutdown_event, buildVars, queueVars, prodVars, consVars, scanCount, owed,
                   trigScans, idleReq>>

\* readdir: a lookup of dir_map under rwlock.
Readdir(paths) ==
    /\ mpc = "mounted"
    /\ rwlock = "free"
    /\ obs' = Observe
    /\ \E path \in paths : ret' = readdir(path)
    /\ UNCHANGED <<cfgVars, remoteVars, servedVars, status, plex, rwlock, storeVars, mainVars,
                   first_scan_complete_event, loopVars, rescan_triggered_event,
                   shutdown_event, buildVars, queueVars, prodVars, consVars, scanCount, owed,
                   trigScans, idleReq>>

\* open: a lookup of path_cache under rwlock, then the test of the flags.
Open(paths, flagset) ==
    /\ mpc = "mounted"
    /\ rwlock = "free"
    /\ obs' = Observe
    /\ \E path \in paths, flags \in flagset : ret' = open(path, flags)
    /\ UNCHANGED <<cfgVars, remoteVars, servedVars, status, plex, rwlock, storeVars, mainVars,
                   first_scan_complete_event, loopVars, rescan_triggered_event,
                   shutdown_event, buildVars, queueVars, prodVars, consVars, scanCount, owed,
                   trigScans, idleReq>>

\* read: a lookup of path_cache under rwlock; for a known path, a reconnection when
\* there is no remote-session handle, then the range request for the entry's key. A
\* failed request, or an entry without a key (a directory), drops the handle.
Read(outcomes, paths) ==
    /\ mpc = "mounted"
    /\ rwlock = "free"
    /\ obs' = Observe
    /\ \E path \in paths :
          IF path \notin DOMAIN path_cache
          THEN ret' = Ret("read", path, 0, "ENOENT", <<>>) /\ UNCHANGED plex
          ELSE \E connected \in outcomes, streamed \in outcomes :
                  IF plex = None /\ ~connected
                  THEN plex' = None /\ ret' = Ret("read", path, 0, "EIO", <<>>)
                  ELSE IF path_cache[path].type = "file" /\ streamed
                  THEN plex' = "conn" /\ ret' = Ret("read", path, 0, "OK", <<"data">>)
                  ELSE plex' = None /\ ret' = Ret("read", path, 0, "EIO", <<>>)
    /\ UNCHANGED <<cfgVars, remoteVars, servedVars, status, rwlock, storeVars, mainVars,
                   first_scan_complete_event, loopVars, rescan_triggered_event,
                   shutdown_event, buildVars, queueVars, prodVars, consVars, scanCount, owed,
                   trigScans, idleReq>>

\* ------------------------------------------------------------- the cache manager's interface

\* How many saves one behaviour of the store interface makes.
MaxSaves == 2

apiVars == <<catalog, failing, servedVars, status, plex, rwlock, store_closed, mainVars,
             first_scan_complete_event, loopVars, rescan_triggered_event, shutdown_event,
             buildVars, queueVars, prodVars, consVars, ghostVars>>

\* The identifiers under which a store holds a record: the server_id column of the
\* SQLite table, the last part of the keys of this instance in Redis.
IdsIn(rows, keys) ==
    IF cfg.cache_type = "sqlite" THEN DOMAIN rows
    ELSE {k[4] : k \in {x \in DOMAIN keys : x[2] = instance_name}}

StoreIdsHeld == IdsIn(sqlite, redis)

\* A snapshot is stored under server_id, and that snapshot.
StoreHolds(server_id) == server_id \in StoreIdsHeld

StoreHeld(server_id) ==
    IF ~StoreHolds(server_id) THEN EmptyIndex
    ELSE IF cfg.cache_type = "sqlite" THEN json_loads(sqlite[server_id].cache_data)
    ELSE json_loads(redis[RedisKey(instance_name, server_id)].value)

\* cache_manager.save(data, server_id) as a call of its own. time.time() has moved on
\* by the next call: the clock advances by a second.
StoreSave(data, server_id) ==
    /\ now % Hour < MaxSaves
    /\ LET r == CacheSave(data, server_id)
       IN  sqlite' = r.sqlite /\ redis' = r.redis
    /\ now' = now + 1
    /\ rt' = [NoRoundTrip EXCEPT !.phase = "saved", !.server_id = server_id, !.saved = data]
    /\ UNCHANGED <<cfg, startStore, apiVars>>

\* cache_manager.load(server_id, load_stale) as a call of its own.
StoreLoad(server_id, load_stale) ==
    /\ LET r == CacheLoad(server_id, load_stale)
           last == [NoRoundTrip EXCEPT !.asked = server_id,
                                       !.held = StoreHolds(server_id),
                                       !.held_data = StoreHeld(server_id),
                                       !.got = r.found, !.got_data = r.data,
                                       !.deleted = StoreIdsHeld \ IdsIn(r.sqlite, r.redis)]
       IN  /\ sqlite' = r.sqlite /\ redis' = r.redis
           /\ rt' = IF rt.phase = "saved" /\ rt.server_id = server_id /\ ~load_stale
                    THEN [last EXCEPT !.phase = "loaded", !.server_id = server_id,
                                      !.saved = rt.saved, !.found = r.found,
                                      !.loaded = r.data]
                    ELSE last
    /\ UNCHANGED <<cfg, startStore, now, apiVars>>

\* An hour passes.
Tick ==
    /\ now < MaxTime * Hour
    /\ now' = now + Hour
    /\ rt' = NoRoundTrip
    /\ UNCHANGED <<cfg, startStore, sqlite, redis, apiVars>>

\* ------------------------------------------------------------- specifications

Reliable == {TRUE}
Flaky == {TRUE, FALSE}

Config(ct, interval, ttl, type) ==
    [consumer_threads |-> ct, refresh_interval_minutes |-> interval, ttl_hours |-> ttl,
     cache_type |-> type]

FailFn(m, t) == (1 :> m) @@ (2 :> t) @@ (3 :> {})

Workers(outcomes) ==
    \/ ProducerConnect(outcomes)
    \/ ProducerNextLibrary
    \/ ProducerFetch
    \/ ProducerPut
    \/ \E c \in Consumers : ConsumerLoop(c)
    \/ \E c \in Consumers : ConsumerGet(c)
    \/ \E c \in Consumers : ConsumerWork(c)

Bootstrap ==
    \/ LoadFresh
    \/ LoadStale
    \/ StartThreads
    \/ CreateEvent
    \/ WaitFirstScan
    \/ Destroy

Loop ==
    \/ RefreshLoop
    \/ WaitRescanTimeout
    \/ RefreshCheck
    \/ ScanDone

Triggers ==
    \/ HandleSighup
    \/ WaitRescanSet
    \/ WaitShutdown

Build(remotes, outcomes) ==
    \/ BuildStart(remotes)
    \/ BuildConnect(outcomes)
    \/ BuildSections(outcomes)
    \/ AwaitProducer
    \/ JoinQueue
    \/ AwaitConsumers

Publish ==
    \/ UpdateCheck
    \/ PublishPathCache
    \/ PublishDirMap
    \/ SaveSnapshot

Reads(outcomes, paths, flagset) ==
    \/ Getattr(paths)
    \/ Readdir(paths)
    \/ Open(paths, flagset)
    \/ Read(outcomes, paths)

Remote(libs, m, t, fm, ft) == [catalog |-> Catalog(libs, m, t), failing |-> FailFn(fm, ft)]

\* The system as a whole over a small catalog: bootstrap, the refresh loop, scans,
\* the filesystem's reads, rescan requests and shutdown, with connections and range
\* requests that may fail.
SysConfigs ==
    {Config(1, i, 1, t) : i \in {-1, 0, 1}, t \in {"sqlite", "redis", "none"}}
SysRemotes == {Remote(<<LibM>>, <<MovA>>, <<>>, {}, {})}
SysPaths == DOMAIN ExpandItem(MovA).maps.cache
SysFlags == {O_RDONLY}

Init == InitWith(SysConfigs, -1..MaxTime)

Next ==
    \/ Bootstrap
    \/ Loop
    \/ Triggers
    \/ Build(SysRemotes, Flaky)
    \/ Publish
    \/ Workers(Flaky)
    \/ Reads(Flaky, SysPaths, SysFlags)

Spec == Init /\ [][Next]_vars

\* The scanner over richer catalogs and failing page requests, with zero to two
\* consumers, started from an empty store and rescanning on the timer.
AllSizes == SeqToSet(ChunkLadder)
AllLibs == <<LibM, LibT, LibMusic>>
ScanConfigs == {Config(ct, 1, 1, "sqlite") : ct \in 0..2}
ScanRemotes ==
    {Remote(AllLibs, <<MovA, MovB>>, <<ShowS>>, {}, {}),
     Remote(AllLibs, <<MovA, MovB>>, <<ShowS>>, {500}, {}),
     Remote(AllLibs, <<MovA, MovB>>, <<ShowS>>, {500, 200, 100}, {}),
     Remote(AllLibs, <<MovA, MovB>>, <<ShowS>>, AllSizes, {}),
     Remote(AllLibs, <<MovA, MovB>>, <<ShowS>>, {}, AllSizes),
     Remote(AllLibs, <<MovA, MovB>>, <<ShowS>>, {SectionCall}, {}),
     Remote(AllLibs, <<MovSlash>>, <<>>, {}, {}),
     Remote(AllLibs, <<MovBad, MovA>>, <<ShowBad>>, {}, {}),
     Remote(AllLibs, <<MovA, MovB, MovA, MovB, MovA>>, <<>>, {}, {}),
     Remote(AllLibs, <<>>, <<>>, {}, {})}

InitScan == InitWith(ScanConfigs, {-1})

NextScan ==
    \/ Bootstrap
    \/ Loop
    \/ Build(ScanRemotes, Reliable)
    \/ Publish
    \/ Workers(Reliable)

SpecScan == InitScan /\ [][NextScan]_vars

\* The filesystem's calls over every kind of path and several open flags, while the
\* refresh loop scans and publishes a catalog of one movie and one show.
FsConfigs == {Config(1, 1, 1, t) : t \in {"sqlite", "none"}}
FsRemotes == {Remote(<<LibM, LibT>>, <<MovA>>, <<ShowS>>, {}, {})}
FsPaths ==
    {Root, join(Root, LibM.title), join(Root, <<"x">>)}
        \cup DOMAIN ExpandItem(MovA).maps.cache
        \cup {join(join(Root, LibT.title), ShowS.title)}
FsFlags == {O_RDONLY, O_WRONLY, O_RDWR, O_WRONLY + O_CREAT}

InitFs == InitWith(FsConfigs, {-1, 0})

NextFs ==
    \/ Bootstrap
    \/ Loop
    \/ Build(FsRemotes, Reliable)
    \/ Publish
    \/ Workers(Reliable)
    \/ Reads(Flaky, FsPaths, FsFlags)

SpecFs == InitFs /\ [][NextFs]_vars

\* The cache manager's interface on its own, for either backend and a TTL of zero to
\* two hours.
StoreConfigs == {Config(1, 1, ttl, t) : ttl \in 0..2, t \in {"sqlite", "redis"}}
StoreIds == {instance_name, machineIdentifier}
StoreData ==
    {EarlierIndex, EmptyIndex,
     MergeItems(AddLibraries([path_cache |-> EmptyDict, dir_map |-> (Root :> <<>>)],
                             <<LibT>>), <<ShowS>>)}

InitStore == InitWith(StoreConfigs, {-1})

NextStore ==
    \/ \E d \in StoreData, id \in StoreIds : StoreSave(d, id)
    \/ \E id \in StoreIds, stale \in BOOLEAN : StoreLoad(id, stale)
    \/ Tick

SpecStore == InitStore /\ [][NextStore]_vars

\* ------------------------------------------------------------- properties

LibKeys == {l.key : l \in SeqToSet(libraries_data)}

\* C1. Atomic publish: every read of the filesystem (getattr, readdir, open, read)
\* sees a path_cache and a dir_map written by the same scan (or the same load), never
\* the entries of one and the child lists of another, however the reads interleave
\* with a publish.
C1_AtomicPublish == obs[1] = obs[2]

\* A second publish is half done (path_cache is the new one, dir_map the old one)
\* while the filesystem is mounted and its last read saw the first scan's pair.
C1_Witness ==
    mpc = "mounted" /\ rpc = "pub_dm" /\ pcGen = 2 /\ dmGen = 1 /\ obs = <<1, 1>>

\* A scan's index is being served: published, and not in the middle of a swap.
ScanIndexServed == rwlock = "free" /\ pcGen >= 1 /\ pcGen = dmGen

\* C2. Directory closure: in every index a scan published, every path of path_cache
\* other than the root has its parent in the index (the root counts as present: getattr
\* answers for it without an entry) and its basename among dir_map[parent].
C2_DirectoryClosure ==
    ScanIndexServed =>
        \A p \in DOMAIN path_cache :
            p # Root =>
                /\ dirname(p) = Root \/ dirname(p) \in DOMAIN path_cache
                /\ dirname(p) \in DOMAIN dir_map
                /\ basename(p) \in SeqToSet(dir_map[dirname(p)])

\* C3. Stale fallback: when the store holds only an expired snapshot at startup, no
\* scan has started while the bootstrap loads, and the bootstrap's fresh load misses
\* and its stale load then hits, so that a cache is loaded.
C3_StaleFallback ==
    startStore = "expired" =>
        /\ mpc \in {"load_fresh", "load_stale"} => scanCount = 0
        /\ mpc \notin {"load_fresh", "load_stale"} =>
               bootLog = <<"fresh_miss", "stale_hit">> /\ cache_loaded

LibPath(l) == join(Root, l.title)

\* Some entry of the index lies under the directory dir.
HasEntriesUnder(index, dir) ==
    \E p \in DOMAIN index :
        Len(p) > Len(dir) + 1 /\ SubSeq(p, 1, Len(dir) + 1) = dir \o <<SLASH>>

\* C4. Empty-result rejection: _update_cache never goes on to publish the result of
\* a scan, one no shutdown cut short, that holds nothing under a library which has
\* entries in the index now served.
C4_EmptyResultRejection ==
    (rpc = "pub_pc" /\ ~shutdown_event) =>
        \A l \in SeqToSet(AllLibs) :
            HasEntriesUnder(path_cache, LibPath(l)) => HasEntriesUnder(final_cache, LibPath(l))

\* The page requests of library k fail at 500, 200 and 100 and succeed at 50.
Degraded(k) == failing[k] = {500, 200, 100}

\* C5. Chunk-size degradation: a library whose page requests fail at 500, 200 and 100
\* and succeed at 50 is never abandoned; every page fetched for it is fetched at 50;
\* once its empty page is reached every one of its items has been enqueued; and a
\* producer that ran through its libraries without a shutdown has finished it.
C5_ChunkDegradation ==
    \A k \in LibKeys :
        Degraded(k) =>
            /\ libEnd[k] # "abandoned"
            /\ fetched[k] \subseteq {50}
            /\ libEnd[k] = "finished" =>
                   fetched[k] = {50} /\ enqueued[k] = Len(catalog.items[k])
            /\ (ppc = "done" /\ plib > Len(libraries_data) /\ ~shutdown_event) =>
                   libEnd[k] = "finished"

\* The scan of a degraded library of two items ended with both in the result.
C5_Witness ==
    /\ rpc = "update_check" /\ ~shutdown_event
    /\ Degraded(1) /\ libEnd[1] = "finished" /\ enqueued[1] = 2 /\ fetched[1] = {50}
    /\ DOMAIN ExpandItem(MovB).maps.cache \subseteq DOMAIN final_cache

\* Every page request of library k fails, whatever the size.
Dead(k) == SectionCall \notin failing[k] /\ AllSizes \subseteq failing[k]

\* Library k can be fetched at some size.
Healthy(k) == SectionCall \notin failing[k] /\ ~(AllSizes \subseteq failing[k])

\* C6. Library isolation: when a library whose page requests fail at every size has
\* been abandoned, no library that can be fetched is abandoned; a producer that ran
\* through its libraries without a shutdown has finished each of them with all its
\* items enqueued; and the result of the scan holds the entries of each of their
\* items whose expansion did not raise.
C6_LibraryIsolation ==
    \A j \in LibKeys :
        (Dead(j) /\ libEnd[j] = "abandoned") =>
            \A i \in LibKeys :
                Healthy(i) =>
                    /\ libEnd[i] # "abandoned"
                    /\ (ppc = "done" /\ ~shutdown_event) =>
                           libEnd[i] = "finished" /\ enqueued[i] = Len(catalog.items[i])
                    /\ (rpc = "update_check" /\ ~shutdown_event) =>
                           \A n \in 1..Len(catalog.items[i]) :
                               LET e == ExpandItem(catalog.items[i][n])
                               IN  e.ok => DOMAIN e.maps.cache \subseteq DOMAIN final_cache

\* The movie library was abandoned and the show library's show is in the result.
C6_Witness ==
    /\ rpc = "update_check" /\ ~shutdown_event
    /\ Dead(1) /\ libEnd[1] = "abandoned"
    /\ Healthy(2) /\ libEnd[2] = "finished" /\ enqueued[2] = 1
    /\ join(LibPath(LibT), <<"s">>) \in DOMAIN final_cache

\* The producer and the consumers of a scan are at work.
WorkersActive ==
    \/ ppc \in {"connect", "nextlib", "fetch", "put"}
    \/ \E c \in Consumers : cpc[c] \in {"loop", "get", "work"}

\* C7. Rescan coalescing: workers run only inside the one scan of the refresh thread;
\* the requests that arrived since the last one have started at most one scan; and
\* the refresh loop is never parked, without a shutdown, where no request can start a
\* scan while requests that arrived during the last scan are still owed their scan.
C7_RescanCoalescing ==
    /\ WorkersActive => rpc \in {"await_producer", "join", "await_consumers"}
    /\ trigScans <= 1
    /\ ~(owed >= 1 /\ rpc = "wait_shutdown" /\ ~shutdown_event)

\* The load that followed a save at once returned what was saved.
RoundTripHolds == rt.phase = "loaded" => rt.found /\ rt.loaded = rt.saved

\* C8 as stated. Round trip: for either backend and any TTL, save(snapshot, id)
\* followed at once by load(id), stale reads not allowed, returns the snapshot saved.
C8_RoundTripAnyTTL == RoundTripHolds

\* C8 as amended. Round trip: for either backend and any TTL greater than zero,
\* save(snapshot, id) followed at once by load(id), stale reads not allowed, returns
\* the snapshot saved.
C8_RoundTripPositiveTTL == cfg.ttl_hours > 0 => RoundTripHolds

\* A snapshot was saved into an SQLite table that holds another row, and loaded back.
C8_Witness ==
    /\ cfg.ttl_hours > 0 /\ cfg.cache_type = "sqlite"
    /\ rt.phase = "loaded" /\ rt.found /\ rt.saved = EarlierIndex
    /\ Cardinality(DOMAIN sqlite) = 2

\* The queue holds no more than its capacity, and a producer with an item to put
\* cannot put it while the queue is at its capacity.
QueueBounded ==
    /\ Len(task_queue) <= maxsize
    /\ (ppc = "put" /\ Len(task_queue) = maxsize) => ~ENABLED ProducerPut

\* C9 as stated. Backpressure: the task queue never holds more than consumer_threads * 4
\* items, and the producer waits while it holds that many.
C9_Backpressure == QueueBounded

\* C9 as amended. Backpressure: with at least one consumer thread configured, the
\* task queue never holds more than consumer_threads * 4 items, and the producer waits
\* while it holds that many.
C9_BackpressureWithConsumers == cfg.consumer_threads >= 1 => QueueBounded

\* The producer holds an item and waits: the queue is at its capacity.
C9_Witness ==
    cfg.consumer_threads >= 1 /\ ppc = "put" /\ Len(task_queue) = maxsize

\* C10. No empty tree at bootstrap: when no cache was loaded, the constructor has
\* returned (the filesystem is mountable) only if a scan's index has been published.
C10_NoEmptyTree ==
    (~cache_loaded /\ mpc \in {"mounted", "destroyed"}) =>
        pcGen >= 1 /\ path_cache # EmptyDict

\* The producer left library k because the shutdown flag was raised.
CutShort(k) == libEnd[k] = "cancelled"

\* C11. Cancelled scans are not published: a scan whose producer left a library
\* because the shutdown flag was raised never reaches the swap of the served index or
\* the save, and does not end with the status of a success.
C11_CancelledNotPublished ==
    (\E k \in LibKeys : CutShort(k)) =>
        /\ rpc \notin {"pub_pc", "pub_dm", "save"}
        /\ rpc = "scan_done" => status # "Idle"

\* C14. Rescan trigger liveness: whenever a rescan request that arrived while the
\* refresh loop was waiting is pending and no shutdown was asked for, the loop, as
\* long as it waits, can wake up on the request, whatever the refresh interval.
C14_RescanTriggerLiveness ==
    (idleReq /\ rescan_triggered_event /\ ~shutdown_event
        /\ rpc \in {"wait_rescan", "wait_shutdown"}) => ENABLED WaitRescanSet

\* C16. Persisted snapshot is found at the next startup: when the store holds a
\* snapshot that the last run's scan saved less than the TTL ago, the bootstrap's fresh
\* load returns it and it is served, with either backend.
C16_SnapshotFoundAtStartup ==
    (startStore = "fresh" /\ mpc # "load_fresh") =>
        /\ bootLog = <<"fresh_hit">>
        /\ cache_loaded
        /\ pcGen = 0 => path_cache = EarlierIndex.path_cache

\* C17. Chunk-size reset: after every page that was fetched and enqueued, the next
\* request of that library is made at the largest chunk size, 500.
C17_ChunkReset ==
    [][(ppc = "put" /\ ppc' = "fetch") => Head(chunk_sizes') = Head(ChunkLadder)]_vars

\* A step of a scan's threads between the start of the workers and their end.
ScanStep ==
    \/ AwaitProducer
    \/ JoinQueue
    \/ AwaitConsumers
    \/ Workers(Flaky)

\* C18. Scan termination: while _build_cache_from_plex waits for its workers, some
\* thread of the scan can take a step: the scan is never left waiting for a producer
\* or a queue that nothing will move again.
C18_ScanTermination ==
    rpc \in {"await_producer", "join", "await_consumers"} => ENABLED ScanStep

\* C19. Shutdown ordering: once the cache manager is closed no scan is in progress, no
\* worker runs and no save is about to be made.
C19_ShutdownOrdering ==
    store_closed => ~Scanning /\ ~WorkersActive

\* The flags ask for write access: O_WRONLY or O_RDWR in the access mode.
WriteIntent(flags) == BitAnd(flags, O_WRONLY + O_RDWR) \in {O_WRONLY, O_RDWR}

\* C12. Read-only open: open of a path that is not a file of the index fails with
\* ENOENT; open of a file with O_WRONLY or O_RDWR in its flags fails with EACCES; open
\* of a file read-only succeeds.
C12_ReadOnlyOpen ==
    ret.op = "open" =>
        /\ ret.kind # "file" => ret.errno = "ENOENT"
        /\ (ret.kind = "file" /\ WriteIntent(ret.flags)) => ret.errno = "EACCES"
        /\ (ret.kind = "file" /\ ~WriteIntent(ret.flags)) => ret.errno = "OK"

\* C13. Keyed load: with a TTL of an hour or more, a load returns nothing and deletes
\* nothing when the store holds no snapshot under the identifier asked for; what it
\* returns is the snapshot held under that identifier; and it deletes no record of
\* another identifier.
C13_KeyedLoad ==
    (rt.asked # None /\ cfg.ttl_hours >= 1) =>
        /\ ~rt.held => (~rt.got /\ rt.deleted = {})
        /\ rt.got => rt.got_data = rt.held_data
        /\ rt.deleted \subseteq {rt.asked}

\* A connection of the scan failed: the one of _build_cache_from_plex, or the
\* producer's own.
ConnectionFailed ==
    status = "Error: Connection Failed" \/ \E k \in 1..3 : libEnd[k] = "unconnected"

\* C15. Scan-fatal connection failure: a scan that could not make one of its
\* connections, no shutdown being asked for, never reaches the swap of the served
\* index or the save, and ends with the status of a failed scan.
C15_ConnectionFailureAborts ==
    (ConnectionFailed /\ ~shutdown_event) =>
        /\ rpc \notin {"pub_pc", "pub_dm", "save"}
        /\ rpc = "scan_done" => status = "Error: Scan Failed"

\* C20. Children exist for every directory: in every index a scan published, readdir
\* answers with a listing for every path of path_cache that getattr reports as a
\* directory.
C20_ChildrenForEveryDirectory ==
    ScanIndexServed =>
        \A d \in DOMAIN path_cache :
            getattr(d).value = <<"S_IFDIR">> => readdir(d).errno = "OK"
\* The producer connected: no library of the scan was left unfetched for want of a
\* connection.
ProducerConnected == \A k \in 1..3 : libEnd[k] # "unconnected"

\* C21. Persist after every publish: when a scan has succeeded and its index has
\* been published, a save of exactly that index has been made by the time
\* _update_cache returns, whatever filesystem reads ran in between (reads that fail
\* and drop self.plex included): the store then holds the served pair under the
\* server's identifier.
C21_PersistAfterPublish ==
    (rpc = "scan_done" /\ status = "Idle" /\ cfg.cache_type # "none" /\ ~shutdown_event
        /\ ProducerConnected) =>
        /\ StoreHolds(machineIdentifier)
        /\ StoreHeld(machineIdentifier) = [path_cache |-> path_cache, dir_map |-> dir_map]

\* C22. Scan errors never stop the scheduler: no error raised inside a scan, a
\* failure to list the server's libraries included, ends the refresh thread; the scan
\* ends as a failure and the loop goes on to its next wait.
C22_ScanErrorsAbsorbed == rpc # "crashed"

\* A list that holds no element twice.
NoDuplicates(seq) == \A i, j \in 1..Len(seq) : seq[i] = seq[j] => i = j

\* The basenames of the paths of the index whose parent is d.
ChildrenOf(index, d) == {basename(p) : p \in {q \in DOMAIN index : q # Root /\ dirname(q) = d}}

\* C23. Children are a set: in every index a scan published, each dir_map[d] holds
\* every basename at most once, and holds exactly the basenames of the paths of
\* path_cache whose parent is d, also when two items of the catalog expand to the
\* same path.
C23_ChildrenAreSet ==
    ScanIndexServed =>
        \A d \in DOMAIN dir_map :
            /\ NoDuplicates(dir_map[d])
            /\ SeqToSet(dir_map[d]) = ChildrenOf(path_cache, d)

\* The last scan ended as a failure, and no scan has started since.
ScanFailed == status = "Error: Scan Failed"

\* C24. No hot retry after failure: while the last scan stands as failed, the served
\* pair is not the failed scan's and does not change, and the next scan starts only
\* from the return of the loop's wait, which returns True exactly when a rescan
\* request was received and False once the interval has elapsed; the loop never goes
\* from a failed scan straight to the next.
C24_NoHotRetry ==
    [][ScanFailed =>
          /\ pcGen # scanCount /\ dmGen # scanCount
          /\ UNCHANGED <<path_cache, dir_map>>
          /\ (rpc # "build_start" /\ rpc' = "build_start") => rpc = "check"
          /\ (rpc # "check" /\ rpc' = "check") =>
                 /\ rpc = "wait_rescan"
                 /\ rescan_triggered' = rescan_triggered_event]_vars

\* After a first scan that failed, the wait has timed out and the second scan is about
\* to start; the served pair is still the one the bootstrap loaded.
C24_Witness ==
    /\ ScanFailed /\ rpc = "build_start" /\ scanCount = 1 /\ ~rescan_triggered
    /\ cache_loaded /\ pcGen = 0 /\ path_cache = EarlierIndex.path_cache

\* C25. Bootstrap wait is always released: when no cache was loaded and the refresh
\* thread was started, then once the first scan has finished and the constructor is
\* in its wait on first_scan_complete_event, the event is set and the wait can
\* return, however the constructor and the refresh thread interleaved. (After the
\* first scan nothing sets the event any more, so a wait that cannot return then never
\* returns.)
C25_BootstrapWaitReleased ==
    (mpc = "wait" /\ ~cache_loaded /\ cfg.refresh_interval_minutes >= 0 /\ ~is_first_scan)
        => ENABLED WaitFirstScan

====
